---- MODULE Spec2Model ----
(***************************************************************************)
(* Model of sickbeard/metadata/synology.py: the Synology VideoStation      *)
(* metadata provider.  write_ep_file looks an episode (and the episodes    *)
(* that share its file) up on TVDB, assembles a flat record in _ep_data,   *)
(* and dumps it as JSON under <dir>/@eaDir/<file>/SYNOVIDEO_TV_EPISODE.    *)
(*                                                                         *)
(* Strings the code only copies are TLA+ strings.  Strings the code takes  *)
(* apart (paths, '|'-separated lists) are sequences of tokens, where a     *)
(* token is a separator ("/" or "|") or a fragment free of separators.     *)
(* A Python value that may be None is None (<<>>) or Some(v) (<<v>>).      *)
(***************************************************************************)
EXTENDS Integers, Sequences, FiniteSets, TLC

\* ------------------------------------------------------------------ bounds
\* longest relatedEps list of an episode object
MaxRelated == 1
\* longest location, in tokens, that the path functions are applied to
MaxPathLen == 3

\* ------------------------------------------------------------ Python values
None == <<>>
Some(v) == <<v>>
Val(o) == o[1]

\* the two results write_ep_file hands its caller, and a propagating exception
Return(v) == [kind |-> "return", value |-> v]
Raise(e) == [kind |-> "raise", value |-> e]
NoResult == [kind |-> "running", value |-> "-"]

\* what _ep_data returns: False (line 149), None (157, 163) or the dict (190)
RetFalse == [kind |-> "False", dict |-> <<>>]
RetNone == [kind |-> "None", dict |-> <<>>]
RetDict(d) == [kind |-> "dict", dict |-> d]
NotReturned == [kind |-> "-", dict |-> <<>>]

\* Python truth of an _ep_data result: None, False and {} are falsy
Truthy(r) == r.kind = "dict" /\ DOMAIN r.dict # {}

\* ---------------------------------------------------------------- str(int)
Digit == <<"0", "1", "2", "3", "4", "5", "6", "7", "8", "9">>

RECURSIVE Str(_)
Str(n) == IF n < 10 THEN Digit[n + 1] ELSE Str(n \div 10) \o Digit[(n % 10) + 1]

\* datetime.date.fromordinal(1), the "no air date" marker of TVEpisode
NoAirdate == 1
\* the air dates of the model, as ordinals: none, and 2010-01-01
Airdates == {NoAirdate, 733773}

\* str(datetime.date): ISO format, for the dates of the model
StrDate(ordinal) == IF ordinal = NoAirdate THEN "0001-01-01" ELSE "2010-01-01"

\* ------------------------------------------------------------- os.path
Sep == "/"

\* p.rfind('/') + 1
RFindSep(p) == IF \E i \in 1..Len(p) : p[i] = Sep
               THEN CHOOSE i \in 1..Len(p) : p[i] = Sep /\ \A j \in (i+1)..Len(p) : p[j] # Sep
               ELSE 0

AllSeps(p) == \A i \in 1..Len(p) : p[i] = Sep

RECURSIVE RStripSep(_)
RStripSep(p) == IF p # <<>> /\ p[Len(p)] = Sep THEN RStripSep(SubSeq(p, 1, Len(p) - 1)) ELSE p

\* posixpath.dirname
dirname(p) == LET head == SubSeq(p, 1, RFindSep(p))
              IN IF head # <<>> /\ ~AllSeps(head) THEN RStripSep(head) ELSE head

\* posixpath.basename
basename(p) == SubSeq(p, RFindSep(p) + 1, Len(p))

\* posixpath.join of two paths
join2(a, b) == IF b # <<>> /\ b[1] = Sep THEN b
               ELSE IF a = <<>> \/ a[Len(a)] = Sep THEN a \o b
               ELSE a \o <<Sep>> \o b

\* posixpath.join(a, b, c)
join3(a, b, c) == join2(join2(a, b), c)

\* ------------------------------------------------------------ str.split
Pipe == "|"

RECURSIVE Flat(_)
\* the string a token sequence spells
Flat(toks) == IF toks = <<>> THEN "" ELSE toks[1] \o Flat(Tail(toks))

RECURSIVE Split(_)
\* s.split('|'): the pieces between the separators, empty pieces included
Split(s) == IF \E i \in 1..Len(s) : s[i] = Pipe
            THEN LET i == CHOOSE k \in 1..Len(s) : s[k] = Pipe /\ \A j \in 1..(k-1) : s[j] # Pipe
                 IN <<Flat(SubSeq(s, 1, i - 1))>> \o Split(SubSeq(s, i + 1, Len(s)))
            ELSE <<Flat(s)>>

\* ------------------------------------------------------------- the record
\* a value of the record: a string, or a list of strings
StrV(s) == [t |-> "str", s |-> s, l |-> <<>>]
ListV(l) == [t |-> "list", s |-> "", l |-> l]

\* data = {}
EmptyDict == [k \in {} |-> StrV("")]

\* data[k] = v
Put(d, k, v) == [x \in (DOMAIN d) \cup {k} |-> IF x = k THEN v ELSE d[x]]

\* ------------------------------------------------------------- json.dump
RECURSIVE JsonList(_)
JsonList(l) == IF l = <<>> THEN <<>>
               ELSE <<"\"", l[1], "\"">> \o (IF Len(l) > 1 THEN <<",">> ELSE <<>>) \o JsonList(Tail(l))

JsonValue(v) == IF v.t = "str" THEN <<"\"", v.s, "\"">> ELSE <<"[">> \o JsonList(v.l) \o <<"]">>

RECURSIVE JsonMembers(_, _)
JsonMembers(d, keys) == IF keys = {} THEN <<>>
                        ELSE LET k == CHOOSE x \in keys : TRUE
                             IN <<"\"", k, "\"", ":">> \o JsonValue(d[k])
                                \o (IF keys # {k} THEN <<",">> ELSE <<>>)
                                \o JsonMembers(d, keys \ {k})

\* the text json.dump(data, nfo_file) writes, as tokens
JsonDump(d) == <<"{">> \o JsonMembers(d, DOMAIN d) \o <<"}">>

\* ------------------------------------------------------------------ state
VARIABLES
    pc,               \* where the call of write_ep_file stands
    ep_obj,           \* the TVEpisode write_ep_file was called with
    tvdb_lang,        \* _ep_data's tvdb_lang (ep_obj.show.lang)
    TVDB_API_PARMS,   \* sickbeard.TVDB_API_PARMS, shared by every provider
    ltvdb_api_parms,  \* _ep_data's copy of it
    myShow,           \* the show record TVDB answered with
    myEp,             \* the episode record of the current loop iteration
    curEpToWrite,     \* index in eps_to_write of the current loop iteration
    defaulted,        \* line 160 ran in the current loop iteration
    data,             \* the dict _ep_data assembles
    ep_data_result,   \* what _ep_data returns to write_ep_file
    nfo_file_path,    \* write_ep_file's nfo_file_path
    tbn_filepath,     \* what get_episode_thumb_path returned
    files,            \* the paths that are regular files
    dirs,             \* the paths that are directories
    nfo_file,         \* what this call wrote to the file it opened
    exc,              \* the exception on its way out of write_ep_file
    result,           \* what the caller of write_ep_file observed
    cause,            \* the failure this call met
    showLookups,      \* t[tvdbid] lookups of this call
    epLookups,        \* myShow[season][episode] lookups of this call, per episode
    mkdirs,           \* os.makedirs calls of this call
    opens             \* open(nfo_file_path, 'w') calls of this call

vars == <<pc, ep_obj, tvdb_lang, TVDB_API_PARMS, ltvdb_api_parms, myShow, myEp, curEpToWrite,
          defaulted, data, ep_data_result, nfo_file_path, tbn_filepath, files, dirs,
          nfo_file, exc, result, cause, showLookups, epLookups, mkdirs, opens>>

\* ----------------------------------------------------------------- inputs
Seasons == {0, 1}
Languages == {"", "en", "de"}

\* a TVEpisode as _ep_data reads it; episodes of one file are numbered in a row
TVEpisodes(number) == [season : Seasons, episode : {number},
                       name : {"Part " \o Str(number)}, description : {None, Some("Plot")},
                       airdate : Airdates]

RECURSIVE RelatedLists(_, _)
\* the relatedEps lists of n episodes, numbered from first on
RelatedLists(first, n) == IF n = 0 THEN {<<>>}
                          ELSE {<<e>> \o r : e \in TVEpisodes(first), r \in RelatedLists(first + 1, n - 1)}

\* the media file of the library, and a location whose file is gone
VideoFile == <<"/", "tv", "/", "ep.mkv">>
GoneFile == <<"/", "tv", "/", "gone.mkv">>
Locations == {VideoFile, GoneFile}

\* the episode objects write_ep_file is called with: the episode's own fields,
\* its relatedEps and its location (ep_obj.show is read on entry only)
EpObjs == {[ep |-> e, relatedEps |-> r, location |-> loc] :
             e \in TVEpisodes(1), r \in UNION {RelatedLists(2, n) : n \in 0..MaxRelated},
             loc \in Locations}
NoEpObj == [ep |-> [season |-> 1, episode |-> 1, name |-> "Part 1", description |-> None,
                    airdate |-> NoAirdate],
            relatedEps |-> <<>>, location |-> <<>>]

\* what TVDB holds for a show
FullShow == [seriesname |-> Some("House"),
             actors |-> Some(<<"|", "Hugh Laurie", "|", "Omar Epps", "|">>),
             genre |-> Some(<<"Drama">>)]
NoShow == [seriesname |-> None, actors |-> None, genre |-> None]
ShowRecords == {FullShow, NoShow, [FullShow EXCEPT !.seriesname = None, !.genre = None]}

\* what TVDB holds for an episode: writer and director vary where the required
\* fields are there, and each required field is missing in turn
NoEp == [episodename |-> None, firstaired |-> None, writer |-> None, director |-> None]
EpRecords == [episodename : {Some("Pilot")},
              firstaired : {Some("2010-01-01")},
              writer : {None, Some(<<"David Shore", "|", "Peter Blake">>)},
              director : {None, Some("Bryan Singer")}]
             \cup [episodename : {None, Some("Pilot")},
                   firstaired : {None},
                   writer : {Some(<<"David Shore">>)},
                   director : {Some("Bryan Singer")}]
             \cup [episodename : {None},
                   firstaired : {Some("2010-01-01")},
                   writer : {Some(<<"David Shore">>)},
                   director : {None}]

\* myShow[season][episode]: the record, or tvdb_seasonnotfound / tvdb_episodenotfound
EpLookupResults == {[found |-> "ok", rec |-> r] : r \in EpRecords}
                   \cup {[found |-> f, rec |-> NoEp] : f \in {"seasonnotfound", "episodenotfound"}}

\* eps_to_write = [ep_obj] + ep_obj.relatedEps
eps_to_write == <<ep_obj.ep>> \o ep_obj.relatedEps

\* ------------------------------------------------- the provider's paths
\* os.path.isfile, os.path.isdir
isfile(p) == p \in files
isdir(p) == p \in dirs

\* a thumbnail kept beside the media file instead of in its @eaDir directory
get_episode_thumb_path_BesideFile(ep) ==
    IF isfile(ep.location)
    THEN Some(join2(dirname(ep.location), <<"SYNOVIDEO_VIDEO_SCREENSHOT.jpg">>))
    ELSE None

\* get_episode_thumb_path(ep_obj): None when the location is no file
get_episode_thumb_path(ep) ==
    IF isfile(ep.location)
    THEN Some(join2(join3(dirname(ep.location), <<"@eaDir">>, basename(ep.location)),
                    <<"SYNOVIDEO_VIDEO_SCREENSHOT.jpg">>))
    ELSE None

\* get_episode_file_path(ep_obj): '' when the location is no file
get_episode_file_path(ep) ==
    IF isfile(ep.location)
    THEN join2(join3(dirname(ep.location), <<"@eaDir">>, basename(ep.location)),
               <<"SYNOVIDEO_TV_EPISODE">>)
    ELSE <<>>

\* write_ep_file's nfo_file_dir and meta_file_dir
nfo_file_dir == dirname(nfo_file_path)
meta_file_dir == dirname(nfo_file_dir)

RECURSIVE MakedirsCreates(_)
\* the directories os.makedirs(name) creates: the missing ancestors, then name
MakedirsCreates(name) ==
    LET tail0 == basename(name)
        head == IF tail0 = <<>> THEN dirname(dirname(name)) ELSE dirname(name)
        tail == IF tail0 = <<>> THEN basename(dirname(name)) ELSE tail0
    IN (IF head # <<>> /\ tail # <<>> /\ ~isdir(head) /\ ~isfile(head)
        THEN MakedirsCreates(head) ELSE {}) \cup {name}

\* os.mkdir cannot succeed: '' names nothing, and a path that exists is taken
MkdirMustFail(name) == name = <<>> \/ isdir(name) \/ isfile(name)

\* --------------------------------------------------------------- _ep_data
\* a check of the episode name alone
RequiredMissing_NameOnly(ep) == ep.episodename = None

\* line 162: a required field is missing
RequiredMissing(ep) == ep.episodename = None \/ ep.firstaired = None

\* line 159: the missing air date of a special is replaced by the default date
DefaultsAirdate(ep, curEp) == ep.firstaired = None /\ ep_obj.ep.season = 0

PutIf(c, d, k, v) == IF c THEN Put(d, k, v) ELSE d

\* lines 165-188: one loop iteration's assignments to data
Assemble(d, show, curEp, ep) ==
    LET d1 == PutIf(show.seriesname # None, d, "title", StrV(Val(show.seriesname)))
        d2 == Put(d1, "tagline", StrV(curEp.name))
        d3 == Put(d2, "season", StrV(Str(curEp.season)))
        d4 == Put(d3, "episode", StrV(Str(curEp.episode)))
        d5 == PutIf(curEp.description # None, d4, "summary", StrV(Val(curEp.description)))
        d6 == PutIf(curEp.airdate # NoAirdate, d5, "original_available", StrV(StrDate(curEp.airdate)))
        d7 == PutIf(ep.writer # None, d6, "writer", ListV(Split(Val(ep.writer))))
        d8 == PutIf(ep.director # None, d7, "director", ListV(<<Val(ep.director)>>))
        d9 == PutIf(show.actors # None, d8, "actor", ListV(Split(Val(show.actors))))
    IN PutIf(show.genre # None, d9, "genre", ListV(Split(Val(show.genre))))

\* ------------------------------------------------------------------- Init
SharedParms == [apikey |-> "9DAF49C96CBF8DAC", language |-> "en"]
NoParms == [k \in {} |-> ""]

fs == <<files, dirs>>
counters == <<showLookups, epLookups, mkdirs, opens>>
ep_locals == <<tvdb_lang, ltvdb_api_parms, myShow, myEp, curEpToWrite, defaulted, data>>

\* no call in progress: the locals of _ep_data hold nothing
NoEpLocals ==
    /\ tvdb_lang' = "-"
    /\ ltvdb_api_parms' = NoParms
    /\ myShow' = NoShow
    /\ myEp' = NoEp
    /\ curEpToWrite' = 0
    /\ defaulted' = FALSE
    /\ data' = EmptyDict

Init ==
    /\ pc = "idle"
    /\ ep_obj = NoEpObj
    /\ tvdb_lang = "-"
    /\ TVDB_API_PARMS = SharedParms
    /\ ltvdb_api_parms = NoParms
    /\ myShow = NoShow
    /\ myEp = NoEp
    /\ curEpToWrite = 0
    /\ defaulted = FALSE
    /\ data = EmptyDict
    /\ ep_data_result = NotReturned
    /\ nfo_file_path = <<>>
    /\ tbn_filepath = None
    /\ files = {VideoFile}
    /\ dirs = {<<"/">>, <<"/", "tv">>}
    /\ nfo_file = None
    /\ exc = "-"
    /\ result = NoResult
    /\ cause = "none"
    /\ showLookups = 0
    /\ epLookups = <<0>>
    /\ mkdirs = 0
    /\ opens = 0

\* ---------------------------------------------------------- write_ep_file
\* the host application calls write_ep_file(ep_obj) for a show of some language;
\* line 209 enters _ep_data, lines 129-133 set its locals
Call ==
    /\ pc = "idle"
    /\ ep_obj' \in EpObjs
    /\ tvdb_lang' \in Languages
    /\ pc' = "ep_data"
    /\ data' = EmptyDict
    /\ epLookups' = [i \in 1..(1 + Len(ep_obj'.relatedEps)) |-> 0]
    /\ UNCHANGED <<TVDB_API_PARMS, ltvdb_api_parms, myShow, myEp, curEpToWrite, defaulted,
                   ep_data_result, nfo_file_path, tbn_filepath, fs, nfo_file, exc, result,
                   cause, showLookups, mkdirs, opens>>

\* the language written into the shared mapping: no copy is taken
PrepareParms_NoCopy ==
    /\ pc = "ep_data"
    /\ pc' = "tvdb"
    /\ ltvdb_api_parms' = IF tvdb_lang # "" /\ tvdb_lang # "en"
                          THEN Put(TVDB_API_PARMS, "language", tvdb_lang)
                          ELSE TVDB_API_PARMS
    /\ TVDB_API_PARMS' = ltvdb_api_parms'
    /\ UNCHANGED <<ep_obj, tvdb_lang, myShow, myEp, curEpToWrite, defaulted, data,
                   ep_data_result, nfo_file_path, tbn_filepath, fs, nfo_file, exc, result,
                   cause, counters>>

\* lines 138-141: the per-call copy of the lookup parameters, with the language
PrepareParms ==
    /\ pc = "ep_data"
    /\ pc' = "tvdb"
    /\ ltvdb_api_parms' = IF tvdb_lang # "" /\ tvdb_lang # "en"
                          THEN Put(TVDB_API_PARMS, "language", tvdb_lang)
                          ELSE TVDB_API_PARMS
    /\ UNCHANGED <<ep_obj, tvdb_lang, TVDB_API_PARMS, myShow, myEp, curEpToWrite, defaulted, data,
                   ep_data_result, nfo_file_path, tbn_filepath, fs, nfo_file, exc, result,
                   cause, counters>>

\* a show that is not found handled like an episode that is not found
OnShowNotFound_ReturnsNone ==
    /\ pc' = "ep_return"
    /\ ep_data_result' = RetNone
    /\ cause' = "shownotfound"
    /\ UNCHANGED exc

\* lines 145-146: tvdb_shownotfound becomes ShowNotFoundException
OnShowNotFound ==
    /\ pc' = "raise"
    /\ exc' = "ShowNotFoundException"
    /\ cause' = "shownotfound"
    /\ UNCHANGED ep_data_result

\* the lookup tried again after tvdb_error
OnTvdbError_Retries ==
    /\ pc' = "tvdb"
    /\ cause' = "unreachable"
    /\ UNCHANGED <<ep_data_result, exc>>

\* lines 147-149: tvdb_error is logged and _ep_data returns False
OnTvdbError ==
    /\ pc' = "ep_return"
    /\ ep_data_result' = RetFalse
    /\ cause' = "unreachable"
    /\ UNCHANGED exc

\* lines 143-149: t = Tvdb(**ltvdb_api_parms); myShow = t[ep_obj.show.tvdbid]
ShowLookup ==
    /\ pc = "tvdb"
    /\ showLookups' = showLookups + 1
    /\ \/ /\ myShow' \in ShowRecords
          /\ pc' = "ep_loop"
          /\ UNCHANGED <<exc, cause, ep_data_result>>
       \/ OnShowNotFound /\ UNCHANGED myShow
       \/ OnTvdbError /\ UNCHANGED myShow
    /\ tvdb_lang' = "-"
    /\ ltvdb_api_parms' = NoParms
    /\ UNCHANGED <<ep_obj, TVDB_API_PARMS, myEp, curEpToWrite, defaulted, data, nfo_file_path,
                   tbn_filepath, fs, nfo_file, result, epLookups, mkdirs, opens>>

\* lines 155-157 and 162-163: _ep_data gives up and returns None
ReturnNone(why) ==
    /\ pc' = "ep_return"
    /\ ep_data_result' = RetNone
    /\ cause' = why
    /\ UNCHANGED data

\* lines 151-188: one iteration of the loop over eps_to_write
EpLookup ==
    /\ pc = "ep_loop"
    /\ curEpToWrite < Len(eps_to_write)
    /\ curEpToWrite' = curEpToWrite + 1
    /\ epLookups' = [epLookups EXCEPT ![curEpToWrite + 1] = @ + 1]
    /\ \E r \in EpLookupResults :
        LET curEp == eps_to_write[curEpToWrite + 1]
            dflt == DefaultsAirdate(r.rec, curEp)
            ep == IF dflt THEN [r.rec EXCEPT !.firstaired = Some(StrDate(NoAirdate))] ELSE r.rec
        IN IF r.found # "ok"
           THEN ReturnNone(r.found) /\ UNCHANGED <<myEp, defaulted>>
           ELSE /\ myEp' = ep
                /\ defaulted' = dflt
                /\ IF RequiredMissing(ep)
                   THEN ReturnNone("missingfield")
                   ELSE /\ data' = Assemble(data, myShow, curEp, ep)
                        /\ UNCHANGED <<pc, ep_data_result, cause>>
    /\ UNCHANGED <<ep_obj, tvdb_lang, TVDB_API_PARMS, ltvdb_api_parms, myShow, nfo_file_path,
                   tbn_filepath, fs, nfo_file, exc, result, showLookups, mkdirs, opens>>

\* line 190: return data
EpDataReturn ==
    /\ pc = "ep_loop"
    /\ curEpToWrite = Len(eps_to_write)
    /\ ep_data_result' = RetDict(data)
    /\ pc' = "ep_return"
    /\ UNCHANGED <<ep_obj, TVDB_API_PARMS, ep_locals, nfo_file_path, tbn_filepath,
                   fs, nfo_file, exc, result, cause, counters>>

\* a return of write_ep_file
ReturnValue(v) ==
    /\ result' = Return(v)
    /\ pc' = "done"

\* lines 209-216: _ep_data has returned; no data, no file; else the paths
CheckData ==
    /\ pc = "ep_return"
    /\ IF ~Truthy(ep_data_result)
       THEN ReturnValue(FALSE) /\ UNCHANGED nfo_file_path
       ELSE /\ nfo_file_path' = get_episode_file_path(ep_obj)
            /\ pc' = "mk_meta"
            /\ UNCHANGED result
    /\ NoEpLocals
    /\ UNCHANGED <<ep_obj, TVDB_API_PARMS, ep_data_result, tbn_filepath,
                   fs, nfo_file, exc, cause, counters>>

\* os.makedirs fails with OSError, which "except IOError" (line 237) does not catch
OnOSError ==
    /\ pc' = "raise"
    /\ exc' = "OSError"
    /\ cause' = "oserror"
    /\ UNCHANGED dirs

\* lines 219-222 and 224-227: if not isdir(d): makedirs(d); then go on at `next`
MakeDir(d, next) ==
    /\ IF isdir(d)
       THEN pc' = next /\ UNCHANGED <<dirs, exc, cause, mkdirs>>
       ELSE /\ mkdirs' = mkdirs + 1
            /\ \/ /\ ~MkdirMustFail(d)
                  /\ dirs' = dirs \cup MakedirsCreates(d)
                  /\ pc' = next
                  /\ UNCHANGED <<exc, cause>>
               \/ OnOSError
    /\ UNCHANGED <<ep_obj, TVDB_API_PARMS, ep_locals, ep_data_result, nfo_file_path,
                   tbn_filepath, files, nfo_file, result, showLookups, epLookups, opens>>

MakeMetaDir == pc = "mk_meta" /\ MakeDir(meta_file_dir, "mk_nfo")

MakeNfoDir == pc = "mk_nfo" /\ MakeDir(nfo_file_dir, "open")

\* open, json.dump and the file's write raise IOError: control passes to line 237
OnIOError ==
    /\ pc' = "except"
    /\ cause' = "ioerror"

\* line 231: nfo_file = open(nfo_file_path, 'w')
OpenFile ==
    /\ pc = "open"
    /\ opens' = opens + 1
    /\ \/ /\ files' = files \cup {nfo_file_path}
          /\ nfo_file' = Some(<<>>)
          /\ pc' = "dump"
          /\ UNCHANGED cause
       \/ OnIOError /\ UNCHANGED <<files, nfo_file>>
    /\ UNCHANGED <<ep_obj, TVDB_API_PARMS, ep_locals, ep_data_result, nfo_file_path,
                   tbn_filepath, dirs, exc, result, showLookups, epLookups, mkdirs>>

\* a dump that loses the episode's name
Written_DropsTagline ==
    JsonDump([k \in (DOMAIN ep_data_result.dict) \ {"tagline"} |-> ep_data_result.dict[k]])

\* the text lines 233-235 leave in the file when nothing fails
Written == JsonDump(ep_data_result.dict)

\* lines 233-241: json.dump(data, nfo_file), close, return True
DumpFile ==
    /\ pc = "dump"
    /\ \/ /\ nfo_file' = Some(Written)
          /\ ReturnValue(TRUE)
          /\ UNCHANGED cause
       \/ /\ nfo_file' = Some(<<"{">>)
          /\ OnIOError
          /\ UNCHANGED result
    /\ UNCHANGED <<ep_obj, TVDB_API_PARMS, ep_locals, ep_data_result, nfo_file_path,
                   tbn_filepath, fs, exc, counters>>

\* a handler that logs the IOError and lets it go on to the caller
ExceptIOError_Reraises ==
    /\ pc = "except"
    /\ result' = Raise("IOError")
    /\ pc' = "done"
    /\ UNCHANGED <<ep_obj, TVDB_API_PARMS, ep_locals, ep_data_result, nfo_file_path,
                   tbn_filepath, fs, nfo_file, exc, cause, counters>>

\* lines 237-239: the IOError is logged and write_ep_file returns False
ExceptIOError ==
    /\ pc = "except"
    /\ ReturnValue(FALSE)
    /\ UNCHANGED <<ep_obj, TVDB_API_PARMS, ep_locals, ep_data_result, nfo_file_path,
                   tbn_filepath, fs, nfo_file, exc, cause, counters>>

\* an exception no handler of write_ep_file catches unwinds to the caller
Propagate ==
    /\ pc = "raise"
    /\ result' = Raise(exc)
    /\ pc' = "done"
    /\ NoEpLocals
    /\ UNCHANGED <<ep_obj, TVDB_API_PARMS, ep_data_result, nfo_file_path,
                   tbn_filepath, fs, nfo_file, exc, cause, counters>>

\* the caller has the outcome; nothing of the call is left but the file system
\* and the shared parameters
Finish ==
    /\ pc = "done"
    /\ pc' = "idle"
    /\ ep_obj' = NoEpObj
    /\ ep_data_result' = NotReturned
    /\ nfo_file_path' = <<>>
    /\ nfo_file' = None
    /\ exc' = "-"
    /\ result' = NoResult
    /\ cause' = "none"
    /\ showLookups' = 0
    /\ epLookups' = <<0>>
    /\ mkdirs' = 0
    /\ opens' = 0
    /\ UNCHANGED <<TVDB_API_PARMS, ep_locals, tbn_filepath, fs>>

Next ==
    \/ Call
    \/ PrepareParms
    \/ ShowLookup
    \/ EpLookup
    \/ EpDataReturn
    \/ CheckData
    \/ MakeMetaDir
    \/ MakeNfoDir
    \/ OpenFile
    \/ DumpFile
    \/ ExceptIOError
    \/ Propagate
    \/ Finish

Spec == Init /\ [][Next]_vars

\* ------------------------------------------- the path functions on their own
PathTokens == {Sep, "tv", "ep.mkv"}

\* the token sequences of length n
PathsOfLen(n) == [1..n -> PathTokens]

\* a path that can name a regular file: not empty, not ending in a separator
CanBeFile(p) == p # <<>> /\ p[Len(p)] # Sep

\* any location, which is an existing file or not, and nothing computed yet
InitPath ==
    /\ pc = "paths"
    /\ \E loc \in UNION {PathsOfLen(n) : n \in 0..MaxPathLen} :
         /\ ep_obj = [NoEpObj EXCEPT !.location = loc]
         /\ files \in {{}} \cup (IF CanBeFile(loc) THEN {{loc}} ELSE {})
    /\ tvdb_lang = "-"
    /\ TVDB_API_PARMS = SharedParms
    /\ ltvdb_api_parms = NoParms
    /\ myShow = NoShow
    /\ myEp = NoEp
    /\ curEpToWrite = 0
    /\ defaulted = FALSE
    /\ data = EmptyDict
    /\ ep_data_result = NotReturned
    /\ nfo_file_path = <<>>
    /\ tbn_filepath = None
    /\ dirs = {}
    /\ nfo_file = None
    /\ exc = "-"
    /\ result = NoResult
    /\ cause = "none"
    /\ showLookups = 0
    /\ epLookups = <<0>>
    /\ mkdirs = 0
    /\ opens = 0

\* a call of get_episode_thumb_path(ep_obj)
GetEpisodeThumbPath ==
    /\ pc \in {"paths", "paths_file"}
    /\ pc' = IF pc = "paths" THEN "paths_thumb" ELSE "paths_both"
    /\ tbn_filepath' = get_episode_thumb_path(ep_obj)
    /\ UNCHANGED <<ep_obj, TVDB_API_PARMS, ep_locals, ep_data_result, nfo_file_path,
                   fs, nfo_file, exc, result, cause, counters>>

\* a call of get_episode_file_path(ep_obj)
GetEpisodeFilePath ==
    /\ pc \in {"paths", "paths_thumb"}
    /\ pc' = IF pc = "paths" THEN "paths_file" ELSE "paths_both"
    /\ nfo_file_path' = get_episode_file_path(ep_obj)
    /\ UNCHANGED <<ep_obj, TVDB_API_PARMS, ep_locals, ep_data_result, tbn_filepath,
                   fs, nfo_file, exc, result, cause, counters>>

NextPath ==
    \/ GetEpisodeThumbPath
    \/ GetEpisodeFilePath

SpecPath == InitPath /\ [][NextPath]_vars

\* ================================================================ properties
\* write_ep_file has ended and its caller holds the outcome
Done == pc = "done"

\* _ep_data stands at a return statement with the dict it assembled
ReturnsDict == pc = "ep_return" /\ ep_data_result.kind = "dict"

\* the failures of one call, as the call met them
NotFoundCauses == {"shownotfound", "seasonnotfound", "episodenotfound"}

ObservedWhenUnreachable == Return(FALSE)
ObservedWhenWriteFails == Return(FALSE)

C3_RequiredOrSkipped ==
    /\ cause = "missingfield"
        => /\ pc = "ep_return" => (myEp.episodename = None \/ myEp.firstaired = None)
           /\ mkdirs = 0 /\ opens = 0 /\ nfo_file = None
           /\ Done => result = Return(FALSE)
    /\ (pc = "ep_loop" /\ curEpToWrite >= 1)
        => (myEp.episodename # None /\ myEp.firstaired # None)
    /\ (ep_data_result.kind = "dict" \/ opens > 0 \/ nfo_file # None)
        => /\ \A i \in 1..Len(eps_to_write) : epLookups[i] = 1
           /\ cause \notin {"missingfield"} \cup NotFoundCauses

\* the second episode of the file has no air date on TVDB: nothing is written
C3_Witness ==
    /\ Done /\ cause = "missingfield" /\ result = Return(FALSE)
    /\ Len(eps_to_write) = 2 /\ epLookups = <<1, 1>>
    /\ ep_obj.location = VideoFile /\ opens = 0

\* ------------------------------------------------------------------- C4
\* the parent directories of a path, one, two and three levels up
Up1(p) == dirname(p)
Up2(p) == dirname(dirname(p))
Up3(p) == dirname(dirname(dirname(p)))

\* p is name in the directory basename(loc), in @eaDir, in dirname(loc)
InEaDirOf(p, loc, name) ==
    /\ basename(p) = <<name>>
    /\ basename(Up1(p)) = basename(loc)
    /\ basename(Up2(p)) = <<"@eaDir">>
    /\ Up3(p) = dirname(loc)
    /\ (dirname(loc) # <<>> /\ ~AllSeps(dirname(loc)))
        => p = dirname(loc) \o <<Sep, "@eaDir", Sep>> \o basename(loc) \o <<Sep, name>>

RECURSIVE SumSeq(_)
SumSeq(q) == IF q = <<>> THEN 0 ELSE q[1] + SumSeq(Tail(q))

\* C5: in one call the show is looked up at most once, each episode at most
\* once and the file is opened at most once; with TVDB unreachable no episode
\* is looked up, the file system is left alone and the call returns False;
\* and after any failure the call makes no further lookup or write.
C5_NoRetry ==
    /\ [](/\ showLookups <= 1
           /\ \A i \in 1..Len(epLookups) : epLookups[i] <= 1
           /\ opens <= 1
           /\ cause = "unreachable"
               => /\ SumSeq(epLookups) = 0 /\ mkdirs = 0 /\ opens = 0 /\ nfo_file = None
                  /\ Done => result = Return(FALSE))
    /\ [][(cause # "none" /\ pc # "done")
            => UNCHANGED <<files, dirs, nfo_file, showLookups, epLookups, mkdirs, opens>>]_vars

\* TVDB was unreachable: one show lookup, and the call is over
C5_Witness ==
    Done /\ cause = "unreachable" /\ showLookups = 1 /\ result = Return(FALSE)

\* ------------------------------------------------------------------- C6
RecordKeys == {"title", "tagline", "season", "episode", "summary", "original_available",
               "writer", "director", "actor", "genre"}

C7_SharedParmsUntouched ==
    /\ TVDB_API_PARMS = SharedParms
    /\ pc = "tvdb"
        => ltvdb_api_parms = IF tvdb_lang \in {"", "en"}
                             THEN SharedParms
                             ELSE [SharedParms EXCEPT !.language = tvdb_lang]

\* a later call, for a German show, has its own copy with language 'de'
C7_Witness ==
    /\ pc = "tvdb" /\ tvdb_lang = "de" /\ ltvdb_api_parms.language = "de"
    /\ files # {VideoFile}

\* ------------------------------------------------------------------- C8
\* the record d describes episode e, whose TVDB record is rec
Describes(d, e, rec) ==
    /\ d["season"].s = Str(e.season) /\ d["episode"].s = Str(e.episode)
    /\ d["tagline"].s = e.name
    /\ ("summary" \in DOMAIN d) <=> (e.description # None)
    /\ ("summary" \in DOMAIN d /\ e.description # None) => d["summary"].s = Val(e.description)
    /\ ("original_available" \in DOMAIN d) <=> (e.airdate # NoAirdate)
    /\ ("writer" \in DOMAIN d) <=> (rec.writer # None)
    /\ ("director" \in DOMAIN d) <=> (rec.director # None)

\* C8: every field of the dict _ep_data returns describes one and the same
\* episode of eps_to_write, and an optional key is there if and only if that
\* episode's own source value is.  (The season and episode of the dict are
\* those of the last episode, whose TVDB record is myEp.)
C8_OneEpisodeDescribed ==
    ReturnsDict
        => \E i \in 1..Len(eps_to_write) :
             i = curEpToWrite /\ Describes(ep_data_result.dict, eps_to_write[i], myEp)

\* ------------------------------------------------------------------- C9
\* C9: when the location is no existing file and the lookup succeeded,
\* write_ep_file makes no directory, writes no file and returns False, with no
\* exception leaving it.
C9_MissingLocationReturnsFalse ==
    (Done /\ ep_data_result.kind = "dict" /\ ~isfile(ep_obj.location))
        => /\ result = Return(FALSE)
           /\ opens = 0 /\ nfo_file = None

\* ------------------------------------------------------------------ C10
\* C10: line 160 sets the default date exactly when the episode looked up has
\* no firstaired and its own season is 0: a special without air date is not a
\* reason to skip, a non-special without air date always is.
C10_DefaultBySeasonOfEpisode ==
    (pc \in {"ep_loop", "ep_return"} /\ curEpToWrite >= 1
     /\ cause \notin {"seasonnotfound", "episodenotfound", "unreachable"})
        => LET curEp == eps_to_write[curEpToWrite]
           IN /\ defaulted => curEp.season = 0
              /\ (cause = "missingfield" /\ myEp.episodename # None) => curEp.season # 0

====
